---- MODULE Spec2Model ----
(***************************************************************************)
(* Model of qetpy/plotting/_didv_plotting.py: the six exported dIdV        *)
(* plotting functions and the helper _plot_time_domain.                    *)
(*                                                                         *)
(* State: the fit-result object `didv` handed to the functions, pyplot's   *)
(* count of open figures `nopen`, and `last`, the record of what the most  *)
(* recent call did (its arguments, the figures it built, the sequence of   *)
(* pyplot calls it made, whether it raised).  One action per exported      *)
(* function; each action is the whole call.  Return ends the call's frame, *)
(* after which the caller may call again.                                  *)
(*                                                                         *)
(* Times are exact rationals [n, d]; complex numbers are [re, im] with     *)
(* integer parts.  Curves whose ordinates come from qp.squarewaveresponse  *)
(* or qp.complexadmittance (not part of this file) carry the call's        *)
(* arguments instead of numbers.                                           *)
(***************************************************************************)
EXTENDS Integers, Sequences, FiniteSets, TLC

VARIABLES didv, nopen, last

vars == <<didv, nopen, last>>

(***************************************************************************)
(* Bounds of the model.                                                    *)
(***************************************************************************)
\* costs of a fit result range over 1..MaxCost
MaxCost == 2
\* the frequency-domain arrays have 1..MaxLen entries
MaxLen == 2
\* calls are explored while at most MaxOpen figures are left open
MaxOpen == 1

(***************************************************************************)
(* Program constants.                                                      *)
(***************************************************************************)
\* seconds -> microseconds, amperes -> microamperes (the "* 1e6" factors)
USEC == 1000000
\* "goodinds = np.abs(didvmean / didvstd) > 2.0"
GoodCut == 2
\* "didv._freq[plotinds] < 1e5"
FreqYlimCut == 100000

(***************************************************************************)
(* Python's None, and float arithmetic as exact rationals.                 *)
(***************************************************************************)
None == [none |-> TRUE]

IsNone(x) == x = None

Abs(x) == IF x < 0 THEN -x ELSE x

RECURSIVE GCD(_, _)
GCD(a, b) == IF b = 0 THEN a ELSE GCD(b, a % b)

\* the rational n/d (d > 0) in lowest terms
Rat(n, d) == LET g == GCD(Abs(n), d) IN [n |-> n \div g, d |-> d \div g]

RInt(i) == [n |-> i, d |-> 1]

RAdd(a, b) == Rat(a.n * b.d + b.n * a.d, a.d * b.d)

RSub(a, b) == Rat(a.n * b.d - b.n * a.d, a.d * b.d)

RMul(a, b) == Rat(a.n * b.n, a.d * b.d)

RLe(a, b) == a.n * b.d <= b.n * a.d

RLt(a, b) == a.n * b.d < b.n * a.d

\* x * 1e6
Micro(x) == RMul(x, RInt(USEC))

\* arr[mask]: the entries of arr at the indices in mask, in order
RECURSIVE Masked(_, _)
Masked(arr, mask) ==
    IF arr = <<>> THEN <<>>
    ELSE LET k == Len(arr)
             front == Masked(SubSeq(arr, 1, k - 1), mask)
         IN IF k \in mask THEN Append(front, arr[k]) ELSE front

(***************************************************************************)
(* The fit-result objects the functions are called with.                   *)
(***************************************************************************)
\* an n-pole fit result: {'params': {..., 'dt': dt}, 'cost': cost}; the dt of
\* the n-pole fit is n seconds, so that the fits' offsets are pairwise
\* different and the offset a function uses tells which fit it selected
FitResults(n) ==
    { [cost |-> RInt(c), params |-> [dt |-> RInt(n)]] : c \in 1..MaxCost }

PoleResults ==
    { <<r1, r2, r3>> : r1 \in FitResults(1) \cup {None},
                       r2 \in FitResults(2) \cup {None},
                       r3 \in FitResults(3) \cup {None} }

BaseResults ==
    << [cost |-> RInt(1), params |-> [dt |-> RInt(1)]],
       None,
       [cost |-> RInt(1), params |-> [dt |-> RInt(3)]] >>

Complex(re, im) == [re |-> re, im |-> im]

\* one frequency bin: (freq, didvmean, didvstd)
FreqPoints ==
    { [freq |-> 10, mean |-> Complex(3, 0), std |-> Complex(1, 0)],
      [freq |-> 20, mean |-> Complex(2, 0), std |-> Complex(1, 0)],
      [freq |-> 0, mean |-> Complex(1, 1), std |-> Complex(0, 0)],
      [freq |-> 100000, mean |-> Complex(0, 3), std |-> Complex(1, 1)] }

FreqData == UNION { [1..k -> FreqPoints] : k \in 1..MaxLen }

BaseFreqData ==
    << [freq |-> 10, mean |-> Complex(3, 0), std |-> Complex(1, 0)],
       [freq |-> 20, mean |-> Complex(2, 0), std |-> Complex(1, 0)] >>

\* (time[0], sgfreq)
TimeData == { <<Rat(0, 1), 1>>, <<Rat(-1, 2), 1>>, <<Rat(0, 1), 2>>, <<Rat(1, 4), 5>> }

BaseTimeData == <<Rat(0, 1), 1>>

MkDidv(res, fd, td) ==
    [ time |-> << td[1], RAdd(td[1], Rat(1, 4)) >>,
      tmean |-> << 3, 5 >>,
      offset |-> 1,
      poleresult |-> res,
      freq |-> [i \in DOMAIN fd |-> fd[i].freq],
      didvmean |-> [i \in DOMAIN fd |-> fd[i].mean],
      didvstd |-> [i \in DOMAIN fd |-> fd[i].std],
      rshunt |-> 5,
      sgamp |-> 1,
      sgfreq |-> td[2],
      dutycycle |-> 1 ]

Didvs ==
    { MkDidv(r, BaseFreqData, BaseTimeData) : r \in PoleResults }
    \cup { MkDidv(BaseResults, f, BaseTimeData) : f \in FreqData }
    \cup { MkDidv(BaseResults, BaseFreqData, t) : t \in TimeData }

\* the poles argument: "all", an integer, or a list
PolesArgs ==
    { [tag |-> "str", v |-> "all"],
      [tag |-> "int", v |-> 1],
      [tag |-> "int", v |-> 3],
      [tag |-> "list", v |-> <<>>],
      [tag |-> "list", v |-> <<1, 2>>],
      [tag |-> "list", v |-> <<3, 2>>] }

\* (savepath, savename)
SaveArgs == { <<"", "">>, <<"", "run1">>, <<"figs/", "run1">> }

ZoomFactors == { Rat(0, 1), Rat(1, 10), Rat(1, 1) }

NoCall ==
    [ fn |-> "none", poles |-> None, lgcsave |-> FALSE, savepath |-> "",
      savename |-> "", zoomfactor |-> None, best_time_offset |-> None,
      raised |-> FALSE, figs |-> <<>>, events |-> <<>>, nopen0 |-> 0 ]

Init ==
    /\ didv \in Didvs
    /\ nopen = 0
    /\ last = NoCall

(***************************************************************************)
(* pyplot: the calls the module makes, as events of the call's trace.      *)
(***************************************************************************)
\* fig, ax = plt.subplots(figsize=(10, 6)): the k-th figure of the call
subplots(k) == [op |-> "subplots", fig |-> k]

NewFigure == [title |-> None, curves |-> <<>>, xlim |-> None]

\* "if lgcsave: fig.savefig(fname); plt.close(fig)  else: plt.show()" for the
\* call's k-th figure, with n figures open (that one included).  plt.show()
\* displays every open figure; whether they are still open when it returns
\* depends on the backend (block: it returns once the windows are closed).
\* the saved figure is never closed
save_or_show_no_close(k, lgcsave, fname, n, block) ==
    IF lgcsave
    THEN [ events |-> << [op |-> "savefig", fig |-> k, fname |-> fname] >>,
           nopen |-> n ]
    ELSE [ events |-> << [op |-> "show", nshown |-> n] >>,
           nopen |-> IF block THEN 0 ELSE n ]

save_or_show(k, lgcsave, fname, n, block) ==
    IF lgcsave
    THEN [ events |-> << [op |-> "savefig", fig |-> k, fname |-> fname],
                         [op |-> "close", fig |-> k] >>,
           nopen |-> n - 1 ]
    ELSE [ events |-> << [op |-> "show", nshown |-> n] >>,
           nopen |-> IF block THEN 0 ELSE n ]

\* the arguments of fig.savefig: savepath + f"<plot-kind>_{savename}.png"
fname_full_trace(savepath, savename) ==
    savepath \o "full_trace_" \o savename \o ".png"

fname_trace_one_period(savepath, savename) ==
    savepath \o "trace_one_period_" \o savename \o ".png"

fname_zoomed_in_trace(savepath, savename) ==
    savepath \o "zoomed_in_trace_" \o savename \o ".png"

fname_flipped_trace(savepath, savename) ==
    savepath \o "flipped_trace_" \o savename \o ".png"

fname_didv_real(savepath, savename) ==
    savepath \o "didv_real_" \o savename \o ".png"

fname_didv_imag(savepath, savename) ==
    savepath \o "didv_imag_" \o savename \o ".png"

fname_didv_abs(savepath, savename) ==
    savepath \o "didv_abs_" \o savename \o ".png"

\* the phase figure saved under the name of the |dIdV| figure
fname_didv_phase_as_abs(savepath, savename) ==
    savepath \o "didv_abs_" \o savename \o ".png"

fname_didv_phase(savepath, savename) ==
    savepath \o "didv_phase_" \o savename \o ".png"

(***************************************************************************)
(* _plot_time_domain                                                       *)
(***************************************************************************)
\* if poles == "all": poleslist = np.array([1, 2, 3])
\* else: poleslist = np.array(poles)      (a 0-d array for an integer)
\* "all" leaves out the 3-pole fit
PolesList_all_is_two(poles) ==
    IF poles.tag = "str" /\ poles.v = "all" THEN <<1, 2>>
    ELSE IF poles.tag = "int" THEN << poles.v >>
    ELSE poles.v

PolesList(poles) ==
    IF poles.tag = "str" /\ poles.v = "all" THEN <<1, 2, 3>>
    ELSE IF poles.tag = "int" THEN << poles.v >>
    ELSE poles.v

\* n in poleslist
InPoles(n, poleslist) == \E i \in DOMAIN poleslist : poleslist[i] = n

FitLabel(n) ==
    CASE n = 1 -> "1-Pole Fit" [] n = 2 -> "2-Pole Fit" [] n = 3 -> "3-Pole Fit"

FitColor(n) ==
    CASE n = 1 -> "magenta" [] n = 2 -> "green" [] n = 3 -> "orange"

\* the n-pole curve of _plot_time_domain
TimeFitCurve(d, n) ==
    [ label |-> FitLabel(n),
      color |-> FitColor(n),
      x |-> [i \in DOMAIN d.time |->
                Micro(RAdd(d.time[i], d.poleresult[n].params.dt))],
      y |-> [ call |-> "squarewaveresponse", t |-> d.time, rshunt |-> d.rshunt,
              sgamp |-> d.sgamp, sgfreq |-> d.sgfreq,
              dutycycle |-> d.dutycycle, params |-> d.poleresult[n].params,
              times |-> USEC ] ]

\* the fit curves drawn for 1..n, in order
RECURSIVE TimeFitCurves(_, _, _)
TimeFitCurves(d, poleslist, n) ==
    IF n = 0 THEN <<>>
    ELSE LET before == TimeFitCurves(d, poleslist, n - 1)
         IN IF (~IsNone(d.poleresult[n])) /\ InPoles(n, poleslist)
            THEN Append(before, TimeFitCurve(d, n))
            ELSE before

plot_time_domain(d, poles) ==
    LET poleslist == PolesList(poles)
        mean == [ label |-> "Mean",
                  color |-> "k",
                  x |-> [i \in DOMAIN d.time |-> Micro(d.time[i])],
                  y |-> [i \in DOMAIN d.time |-> (d.tmean[i] - d.offset) * USEC] ]
    IN [NewFigure EXCEPT !.curves = <<mean>> \o TimeFitCurves(d, poleslist, 3)]

\* the record of a call
Call(fn, poles, lgcsave, savepath, savename, zoomfactor, bto, raised, figs, events) ==
    [ fn |-> fn, poles |-> poles, lgcsave |-> lgcsave, savepath |-> savepath,
      savename |-> savename, zoomfactor |-> zoomfactor,
      best_time_offset |-> bto, raised |-> raised, figs |-> figs,
      events |-> events, nopen0 |-> nopen ]

(***************************************************************************)
(* plot_full_trace                                                         *)
(***************************************************************************)
plot_full_trace(poles, lgcsave, savepath, savename, block) ==
    LET fa == plot_time_domain(didv, poles)
        fig == [fa EXCEPT !.xlim = << Micro(didv.time[1]),
                                      Micro(didv.time[Len(didv.time)]) >>,
                          !.title = "Full Trace of dIdV"]
        out == save_or_show(1, lgcsave,
                            fname_full_trace(savepath, savename),
                            nopen + 1, block)
    IN /\ last = NoCall
       /\ out.nopen <= MaxOpen
       /\ last' = Call("plot_full_trace", poles, lgcsave, savepath, savename,
                       None, None, FALSE, <<fig>>, <<subplots(1)>> \o out.events)
       /\ nopen' = out.nopen
       /\ UNCHANGED didv

(***************************************************************************)
(* plot_single_period_of_trace                                             *)
(***************************************************************************)
plot_single_period_of_trace(poles, lgcsave, savepath, savename, block) ==
    LET fa == plot_time_domain(didv, poles)
        period == Rat(1, didv.sgfreq)
        fig == [fa EXCEPT !.xlim = << Micro(didv.time[1]),
                                      RAdd(Micro(didv.time[1]), Micro(period)) >>,
                          !.title = "Single Period of Trace"]
        out == save_or_show(1, lgcsave,
                            fname_trace_one_period(savepath, savename),
                            nopen + 1, block)
    IN /\ last = NoCall
       /\ out.nopen <= MaxOpen
       /\ last' = Call("plot_single_period_of_trace", poles, lgcsave, savepath,
                       savename, None, None, FALSE, <<fig>>,
                       <<subplots(1)>> \o out.events)
       /\ nopen' = out.nopen
       /\ UNCHANGED didv

(***************************************************************************)
(* Selection of the best fit: Python's min over (cost, index) tuples.      *)
(***************************************************************************)
\* cost_lambda = lambda x: x['cost'] if x is not None else None
cost_lambda(x) == IF ~IsNone(x) THEN x.cost ELSE None

\* dt_lambda = lambda x: x['params']['dt'] if x is not None else None
dt_lambda(x) == IF ~IsNone(x) THEN x.params.dt ELSE None

\* (v, i) < (w, j) for tuples of a number and an index
\* ties between equal costs go to the higher index
TupleLt_last_wins(a, b) == RLt(a[1], b[1]) \/ (a[1] = b[1] /\ a[2] > b[2])

TupleLt(a, b) == RLt(a[1], b[1]) \/ (a[1] = b[1] /\ a[2] < b[2])

\* min(S) for a non-empty set of such tuples
MinTuple(S) == CHOOSE a \in S : \A b \in S \ {a} : TupleLt(a, b)

\* best_time_offset of plot_zoomed_in_trace
best_time_offset_zoomed(d) ==
    LET cost_vals == [ii \in 0..2 |-> cost_lambda(d.poleresult[ii + 1])]
        dt_vals == [ii \in 0..2 |-> dt_lambda(d.poleresult[ii + 1])]
    IN IF \A ii \in 0..2 : IsNone(cost_vals[ii])
       THEN RInt(0)
       ELSE LET min_cost_idx ==
                    MinTuple({ <<cost_vals[ii], ii>> :
                                   ii \in { j \in 0..2 : ~IsNone(cost_vals[j]) } })[2]
            IN dt_vals[min_cost_idx]

(***************************************************************************)
(* plot_zoomed_in_trace                                                    *)
(***************************************************************************)
\* "zoomfactor" in place of "zoomfactor / 2"
zoomed_xlim_full_factor(best_time_offset, t0, zoomfactor, period) ==
    << Micro(RAdd(RAdd(best_time_offset, t0),
                  RMul(RSub(Rat(1, 2), zoomfactor), period))),
       Micro(RAdd(RAdd(best_time_offset, t0),
                  RMul(RAdd(Rat(1, 2), zoomfactor), period))) >>

\* the arguments of ax.set_xlim
zoomed_xlim(best_time_offset, t0, zoomfactor, period) ==
    << Micro(RAdd(RAdd(best_time_offset, t0),
                  RMul(RSub(Rat(1, 2), RMul(zoomfactor, Rat(1, 2))), period))),
       Micro(RAdd(RAdd(best_time_offset, t0),
                  RMul(RAdd(Rat(1, 2), RMul(zoomfactor, Rat(1, 2))), period))) >>

plot_zoomed_in_trace(poles, zoomfactor, lgcsave, savepath, savename, block) ==
    LET period == Rat(1, didv.sgfreq)
        best_time_offset == best_time_offset_zoomed(didv)
        fa == plot_time_domain(didv, poles)
        fig == [fa EXCEPT !.xlim = zoomed_xlim(best_time_offset, didv.time[1],
                                               zoomfactor, period),
                          !.title = "Zoomed In Portion of Trace"]
        out == save_or_show(1, lgcsave,
                            fname_zoomed_in_trace(savepath, savename),
                            nopen + 1, block)
    IN /\ last = NoCall
       /\ out.nopen <= MaxOpen
       /\ last' = Call("plot_zoomed_in_trace", poles, lgcsave, savepath, savename,
                       zoomfactor, best_time_offset, FALSE, <<fig>>,
                       <<subplots(1)>> \o out.events)
       /\ nopen' = out.nopen
       /\ UNCHANGED didv

(***************************************************************************)
(* plot_didv_flipped                                                       *)
(***************************************************************************)
\* the 'Flipped Data' curve
flipped_curve(d) ==
    LET period == Rat(1, d.sgfreq)
        time_flipped == [i \in DOMAIN d.time |->
                            RSub(d.time[i], RMul(period, Rat(1, 2)))]
        tmean_flipped == [i \in DOMAIN d.tmean |-> -(d.tmean[i] - d.offset)]
    IN [ label |-> "Flipped Data",
         color |-> "blue",
         x |-> [i \in DOMAIN time_flipped |-> Micro(time_flipped[i])],
         y |-> [i \in DOMAIN tmean_flipped |-> tmean_flipped[i] * USEC] ]

\* the flipped time written back into the object (didv._time -= period / 2)
plot_didv_flipped_in_place(poles, lgcsave, savepath, savename, block) ==
    LET fa == plot_time_domain(didv, poles)
        fig == [fa EXCEPT !.curves = Append(@, flipped_curve(didv)),
                          !.title = "Flipped Traces to Check Asymmetry"]
        out == save_or_show(1, lgcsave,
                            fname_flipped_trace(savepath, savename),
                            nopen + 1, block)
    IN /\ last = NoCall
       /\ out.nopen <= MaxOpen
       /\ last' = Call("plot_didv_flipped", poles, lgcsave, savepath, savename,
                       None, None, FALSE, <<fig>>, <<subplots(1)>> \o out.events)
       /\ nopen' = out.nopen
       /\ didv' = [didv EXCEPT !.time =
                       [i \in DOMAIN didv.time |->
                           RSub(didv.time[i],
                                RMul(Rat(1, didv.sgfreq), Rat(1, 2)))]]

plot_didv_flipped(poles, lgcsave, savepath, savename, block) ==
    LET fa == plot_time_domain(didv, poles)
        fig == [fa EXCEPT !.curves = Append(@, flipped_curve(didv)),
                          !.title = "Flipped Traces to Check Asymmetry"]
        out == save_or_show(1, lgcsave,
                            fname_flipped_trace(savepath, savename),
                            nopen + 1, block)
    IN /\ last = NoCall
       /\ out.nopen <= MaxOpen
       /\ last' = Call("plot_didv_flipped", poles, lgcsave, savepath, savename,
                       None, None, FALSE, <<fig>>, <<subplots(1)>> \o out.events)
       /\ nopen' = out.nopen
       /\ UNCHANGED didv

(***************************************************************************)
(* Frequency domain: the masks and the curves of one figure.               *)
(***************************************************************************)
\* np.abs(m / s) > 2.0 for complex m and s.  Dividing by 0 + 0j gives an
\* infinite quotient (absolute value inf) unless m is 0 too (nan, and
\* nan > 2.0 is False).
goodind(m, s) ==
    IF s.re = 0 /\ s.im = 0
    THEN ~(m.re = 0 /\ m.im = 0)
    ELSE m.re * m.re + m.im * m.im
             > GoodCut * GoodCut * (s.re * s.re + s.im * s.im)

\* goodinds = np.abs(didv._didvmean / didv._didvstd) > 2.0
goodinds(d) == { i \in DOMAIN d.freq : goodind(d.didvmean[i], d.didvstd[i]) }

\* fitinds = didv._freq > 0
fitinds(d) == { i \in DOMAIN d.freq : d.freq[i] > 0 }

\* the error cut alone, without the cut on the frequency
plotinds_goodinds_only(d) == goodinds(d)

\* plotinds = np.logical_and(fitinds, goodinds)
plotinds(d) == fitinds(d) \cap goodinds(d)

\* the points of [plotinds][didv._freq[plotinds] < 1e5]
ylim_inds(d) == { i \in plotinds(d) : d.freq[i] < FreqYlimCut }

\* min(didv._freq[fitinds]) of ax.set_xlim raises ValueError when no
\* frequency is above 0
raises_xlim(d) == fitinds(d) = {}

\* yhigh = max(...) raises ValueError when the selection is empty, and so
\* does the set_xlim after it
raises_limits(d) == ylim_inds(d) = {} \/ raises_xlim(d)

\* didv.fitresult(n)
fitresult(d, n) == d.poleresult[n]

SetMin(S) == CHOOSE x \in S : \A y \in S : x <= y

SetMax(S) == CHOOSE x \in S : \A y \in S : x >= y

\* the scatter of the measured points and the two 1-sigma lines (the second
\* one has no label: ""); phase is the offset of time_phase, None where the
\* data is drawn without it
freq_data_curves(d, part, phase) ==
    LET pts(label, color, kind, of) ==
            [ label |-> label, color |-> color, kind |-> kind,
              inds |-> plotinds(d),
              x |-> Masked(d.freq, plotinds(d)),
              y |-> [part |-> part, of |-> of, time_offset |-> phase] ]
    IN << pts("Mean", "blue", "scatter", "didvmean"),
          pts("1-$\\sigma$ Bounds", "black", "plot", "didvmean + didvstd"),
          pts("", "black", "plot", "didvmean - didvstd") >>

\* the n-pole curve of a frequency-domain figure
freq_fit_curve(d, n, part) ==
    [ label |-> FitLabel(n), color |-> FitColor(n), kind |-> "plot",
      inds |-> fitinds(d),
      x |-> Masked(d.freq, fitinds(d)),
      y |-> [ part |-> part, call |-> "complexadmittance", f |-> d.freq,
              params |-> fitresult(d, n).params ] ]

RECURSIVE freq_fit_curves(_, _, _, _)
freq_fit_curves(d, poleslist, part, n) ==
    IF n = 0 THEN <<>>
    ELSE LET before == freq_fit_curves(d, poleslist, part, n - 1)
         IN IF (~IsNone(d.poleresult[n])) /\ InPoles(n, poleslist)
            THEN Append(before, freq_fit_curve(d, n, part))
            ELSE before

\* a frequency-domain figure up to its last ax.plot
freq_figure(d, poleslist, part, phase) ==
    [NewFigure EXCEPT !.curves = freq_data_curves(d, part, phase)
                                     \o freq_fit_curves(d, poleslist, part, 3)]

\* ax.set_xlim([min(didv._freq[fitinds]), max(didv._freq[fitinds])]) and
\* ax.set_title(title)
freq_finish(fig, d, title) ==
    LET f == { d.freq[i] : i \in fitinds(d) }
    IN [fig EXCEPT !.xlim = << RInt(SetMin(f)), RInt(SetMax(f)) >>,
                   !.title = title]

ValueError == [op |-> "raise", exc |-> "ValueError"]

\* a call that builds two figures one after the other: what it leaves behind
\* when the first figure raises, when the second does, when none does
two_figures(fig1, raise1, title1, fname1, fig2, raise2, title2, fname2, lgcsave, block) ==
    LET out1 == save_or_show(1, lgcsave, fname1, nopen + 1, block)
        out2 == save_or_show(2, lgcsave, fname2, out1.nopen + 1, block)
    IN IF raise1
       THEN [ figs |-> <<fig1>>, raised |-> TRUE, nopen |-> nopen + 1,
              events |-> << subplots(1), ValueError >> ]
       ELSE IF raise2
       THEN [ figs |-> << freq_finish(fig1, didv, title1), fig2 >>,
              raised |-> TRUE, nopen |-> out1.nopen + 1,
              events |-> <<subplots(1)>> \o out1.events
                             \o << subplots(2), ValueError >> ]
       ELSE [ figs |-> << freq_finish(fig1, didv, title1),
                          freq_finish(fig2, didv, title2) >>,
              raised |-> FALSE, nopen |-> out2.nopen,
              events |-> <<subplots(1)>> \o out1.events
                             \o <<subplots(2)>> \o out2.events ]

(***************************************************************************)
(* plot_re_im_didv                                                         *)
(***************************************************************************)
\* max in place of min: the offset of the fit with the highest cost
best_time_offset_re_im_max(d) ==
    LET present == { n \in 1..3 : ~IsNone(d.poleresult[n]) }
    IN IF present = {} THEN RInt(0)
       ELSE d.poleresult[CHOOSE n \in present : \A m \in present \ {n} :
                            TupleLt(<<d.poleresult[m].cost, m>>,
                                    <<d.poleresult[n].cost, n>>)].params.dt

\* best_time_offset of plot_re_im_didv
best_time_offset_re_im(d) ==
    LET cost_vals == [ii \in 0..2 |-> cost_lambda(d.poleresult[ii + 1])]
        dt_vals == [ii \in 0..2 |-> dt_lambda(d.poleresult[ii + 1])]
    IN IF \A ii \in 0..2 : IsNone(cost_vals[ii])
       THEN RInt(0)
       ELSE LET min_cost_idx ==
                    MinTuple({ <<cost_vals[ii], ii>> :
                                   ii \in { j \in 0..2 : ~IsNone(cost_vals[j]) } })[2]
            IN dt_vals[min_cost_idx]

plot_re_im_didv(poles, lgcsave, savepath, savename, block) ==
    LET poleslist == PolesList(poles)
        best_time_offset == best_time_offset_re_im(didv)
        res == two_figures(
                   freq_figure(didv, poleslist, "real", best_time_offset),
                   raises_limits(didv),
                   "Real Part of dIdV",
                   fname_didv_real(savepath, savename),
                   freq_figure(didv, poleslist, "imag", best_time_offset),
                   raises_limits(didv),
                   "Imaginary Part of dIdV",
                   fname_didv_imag(savepath, savename),
                   lgcsave, block)
    IN /\ last = NoCall
       /\ res.nopen <= MaxOpen
       /\ last' = Call("plot_re_im_didv", poles, lgcsave, savepath, savename,
                       None, best_time_offset, res.raised, res.figs, res.events)
       /\ nopen' = res.nopen
       /\ UNCHANGED didv

(***************************************************************************)
(* plot_abs_phase_didv                                                     *)
(***************************************************************************)
\* best_time_offset of plot_abs_phase_didv
best_time_offset_abs_phase(d) ==
    LET cost_vals == [ii \in 0..2 |-> cost_lambda(d.poleresult[ii + 1])]
        dt_vals == [ii \in 0..2 |-> dt_lambda(d.poleresult[ii + 1])]
    IN IF \A ii \in 0..2 : IsNone(cost_vals[ii])
       THEN RInt(0)
       ELSE LET min_cost_idx ==
                    MinTuple({ <<cost_vals[ii], ii>> :
                                   ii \in { j \in 0..2 : ~IsNone(cost_vals[j]) } })[2]
            IN dt_vals[min_cost_idx]

plot_abs_phase_didv(poles, lgcsave, savepath, savename, block) ==
    LET poleslist == PolesList(poles)
        best_time_offset == best_time_offset_abs_phase(didv)
        \* the |dIdV| figure draws the data without time_phase; its yhigh is a
        \* max over ylim_inds; the phase figure has fixed y limits, and the
        \* min/max of its set_xlim need a frequency above 0
        res == two_figures(
                   freq_figure(didv, poleslist, "abs", None),
                   raises_limits(didv),
                   "|dIdV|",
                   fname_didv_abs(savepath, savename),
                   freq_figure(didv, poleslist, "angle", best_time_offset),
                   raises_xlim(didv),
                   "Phase of dIdV",
                   fname_didv_phase(savepath, savename),
                   lgcsave, block)
    IN /\ last = NoCall
       /\ res.nopen <= MaxOpen
       /\ last' = Call("plot_abs_phase_didv", poles, lgcsave, savepath, savename,
                       None, best_time_offset, res.raised, res.figs, res.events)
       /\ nopen' = res.nopen
       /\ UNCHANGED didv

(***************************************************************************)
(* The caller.                                                             *)
(***************************************************************************)
\* the call has returned (or raised): its frame, with fig and ax, is gone
Return ==
    /\ last # NoCall
    /\ last' = NoCall
    /\ UNCHANGED <<didv, nopen>>

\* plt.show() is reached only when lgcsave is False
Backends(lgcsave) == IF lgcsave THEN {TRUE} ELSE BOOLEAN

Next ==
    \/ \E poles \in PolesArgs, lgcsave \in BOOLEAN, sa \in SaveArgs :
         \E block \in Backends(lgcsave) :
            \/ plot_full_trace(poles, lgcsave, sa[1], sa[2], block)
            \/ plot_single_period_of_trace(poles, lgcsave, sa[1], sa[2], block)
            \/ \E zoomfactor \in ZoomFactors :
                   plot_zoomed_in_trace(poles, zoomfactor, lgcsave, sa[1], sa[2],
                                        block)
            \/ plot_didv_flipped(poles, lgcsave, sa[1], sa[2], block)
            \/ plot_re_im_didv(poles, lgcsave, sa[1], sa[2], block)
            \/ plot_abs_phase_didv(poles, lgcsave, sa[1], sa[2], block)
    \/ Return

Spec == Init /\ [][Next]_vars

(***************************************************************************)
(* Vocabulary of the properties: what the trace of the last call shows.    *)
(***************************************************************************)
Called == last.fn # "none"

TwoFigureFns == { "plot_re_im_didv", "plot_abs_phase_didv" }

OffsetFns == { "plot_zoomed_in_trace", "plot_re_im_didv", "plot_abs_phase_didv" }

\* positions in the trace of the events `op` on the call's k-th figure
EventsOn(op, k) ==
    { i \in DOMAIN last.events :
        last.events[i].op = op /\ last.events[i].fig = k }

ShowEvents == { i \in DOMAIN last.events : last.events[i].op = "show" }

SaveEvents == { i \in DOMAIN last.events : last.events[i].op = "savefig" }

CreatedFigs ==
    { last.events[i].fig :
        i \in { j \in DOMAIN last.events : last.events[j].op = "subplots" } }

Saved(k) == EventsOn("savefig", k) # {}

Closed(k) == EventsOn("close", k) # {}

\* a plt.show() ran while figure k was open
Displayed(k) ==
    \E c \in EventsOn("subplots", k), sh \in ShowEvents :
        c < sh /\ ~(\E x \in EventsOn("close", k) : x < sh)

\* figure k was output: saved and closed, or displayed; at which position
OutputAt(k) ==
    { i \in DOMAIN last.events :
        \/ last.events[i].op = "show" /\ \E c \in EventsOn("subplots", k) : c < i
        \/ last.events[i].op = "close" /\ last.events[i].fig = k /\ Saved(k) }

Present == { n \in 1..3 : didv.poleresult[n] # None }

\* n is selected by the poles argument
Selected(n, poles) ==
    \/ poles.tag = "str" /\ poles.v = "all"
    \/ poles.tag = "int" /\ poles.v = n
    \/ poles.tag = "list" /\ \E i \in DOMAIN poles.v : poles.v[i] = n

CurveLabels(fig) == { fig.curves[i].label : i \in DOMAIN fig.curves }

\* the measured points a frequency-domain figure may draw
GoodPoints ==
    { i \in DOMAIN didv.freq :
        didv.freq[i] > 0 /\ goodind(didv.didvmean[i], didv.didvstd[i]) }

PositiveFreqs == { i \in DOMAIN didv.freq : didv.freq[i] > 0 }

(***************************************************************************)
(* C1.  Every figure a call creates is either displayed or saved, never    *)
(* both and never neither: with lgcsave the figure is saved and closed and *)
(* not displayed, without it the figure is displayed and no file is        *)
(* written.                                                                *)
(***************************************************************************)
C1_DisplayedOrSaved ==
    \A k \in CreatedFigs :
        /\ Saved(k) # Displayed(k)
        /\ last.lgcsave => Saved(k) /\ Closed(k) /\ ~Displayed(k)
        /\ ~last.lgcsave => Displayed(k) /\ SaveEvents = {}

(***************************************************************************)
(* C2.  Every file written is named savepath + "<plot-kind>_" + savename + *)
(* ".png", the plot kind fixed by the function and the figure.             *)
(***************************************************************************)
PlotKind(fn, k) ==
    CASE fn = "plot_full_trace" -> "full_trace"
      [] fn = "plot_single_period_of_trace" -> "trace_one_period"
      [] fn = "plot_zoomed_in_trace" -> "zoomed_in_trace"
      [] fn = "plot_didv_flipped" -> "flipped_trace"
      [] fn = "plot_re_im_didv" /\ k = 1 -> "didv_real"
      [] fn = "plot_re_im_didv" /\ k = 2 -> "didv_imag"
      [] fn = "plot_abs_phase_didv" /\ k = 1 -> "didv_abs"
      [] fn = "plot_abs_phase_didv" /\ k = 2 -> "didv_phase"

C2_FileNames ==
    \A i \in SaveEvents :
        /\ last.lgcsave
        /\ last.events[i].fname =
               last.savepath \o PlotKind(last.fn, last.events[i].fig) \o "_"
                   \o last.savename \o ".png"

C2_Witness ==
    /\ last.fn = "plot_abs_phase_didv"
    /\ last.savepath = "figs/" /\ last.savename = "run1"
    /\ Cardinality(SaveEvents) = 2

(***************************************************************************)
(* C3.  The offset used by plot_zoomed_in_trace, plot_re_im_didv and       *)
(* plot_abs_phase_didv is the dt of a present fit of lowest cost, 0 when   *)
(* no fit is present; the three functions agree on it, and the data of the *)
(* figures that apply a time phase carry it.                               *)
(***************************************************************************)
C3_BestTimeOffset ==
    last.fn \in OffsetFns =>
        /\ IF Present = {}
           THEN last.best_time_offset = RInt(0)
           ELSE \E n \in Present :
                   /\ \A m \in Present :
                          RLe(didv.poleresult[n].cost, didv.poleresult[m].cost)
                   /\ last.best_time_offset = didv.poleresult[n].params.dt
        /\ last.best_time_offset = best_time_offset_zoomed(didv)
        /\ last.best_time_offset = best_time_offset_re_im(didv)
        /\ last.best_time_offset = best_time_offset_abs_phase(didv)
        /\ \A f \in DOMAIN last.figs : \A c \in 1..3 :
               (last.fn \in TwoFigureFns /\ last.figs[f].curves[c].y.part # "abs")
                   => last.figs[f].curves[c].y.time_offset = last.best_time_offset

C3_Witness ==
    /\ last.fn = "plot_re_im_didv"
    /\ didv.poleresult[1] # None /\ didv.poleresult[2] = None
    /\ didv.poleresult[3] # None
    /\ RLt(didv.poleresult[3].cost, didv.poleresult[1].cost)
    /\ last.best_time_offset = RInt(3)
    /\ Len(last.figs) = 2

(***************************************************************************)
(* C4.  In every figure the n-pole fit curve is drawn exactly when the     *)
(* n-pole result is present and n is selected by poles; the measured data  *)
(* is drawn whatever fits are missing, and a call whose data has a point   *)
(* to plot below 1e5 Hz raises nothing, whichever fits are missing.        *)
(***************************************************************************)
C4_FitCurves ==
    Called =>
        /\ \A f \in DOMAIN last.figs :
              /\ "Mean" \in CurveLabels(last.figs[f])
              /\ \A n \in 1..3 :
                    (FitLabel(n) \in CurveLabels(last.figs[f]))
                        <=> (n \in Present /\ Selected(n, last.poles))
        /\ last.raised =>
              /\ last.fn \in TwoFigureFns
              /\ ~(\E i \in GoodPoints : didv.freq[i] < FreqYlimCut)

C4_Witness ==
    /\ last.fn = "plot_abs_phase_didv"
    /\ last.poles = [tag |-> "str", v |-> "all"]
    /\ Present = {1, 3}
    /\ ~last.raised
    /\ CurveLabels(last.figs[2]) =
           { "Mean", "1-$\\sigma$ Bounds", "", "1-Pole Fit", "3-Pole Fit" }

(***************************************************************************)
(* C5.  No call changes the fit-result object.                             *)
(***************************************************************************)
C5_DidvUnchanged == [][didv' = didv]_vars

C5_Witness ==
    /\ last.fn = "plot_didv_flipped"
    /\ last.nopen0 > 0
    /\ Len(last.figs[1].curves) = 4

(***************************************************************************)
(* C6.  plot_re_im_didv and plot_abs_phase_didv create exactly two figures *)
(* per call, in a fixed order, the first one output before the second is   *)
(* created; every other function creates exactly one.                      *)
(***************************************************************************)
FirstPart(fig) == fig.curves[1].y.part

C6_FigureCountAndOrder ==
    Called =>
        IF last.fn \in TwoFigureFns
        THEN /\ Len(last.figs) = 2
             /\ \A k \in 1..2 : Cardinality(EventsOn("subplots", k)) = 1
             /\ <<FirstPart(last.figs[1]), FirstPart(last.figs[2])>> =
                    (IF last.fn = "plot_re_im_didv"
                     THEN <<"real", "imag">> ELSE <<"abs", "angle">>)
             /\ \E o \in OutputAt(1) : \A c \in EventsOn("subplots", 2) : o < c
        ELSE /\ Len(last.figs) = 1
             /\ CreatedFigs = {1}
             /\ Cardinality(EventsOn("subplots", 1)) = 1

(***************************************************************************)
(* C7.  In the frequency-domain figures the measured points and their      *)
(* 1-sigma bounds are drawn at exactly the indices with freq > 0 and       *)
(* |didvmean / didvstd| > 2.0, and every fit curve at exactly the indices  *)
(* with freq > 0.                                                          *)
(***************************************************************************)
C7_PlottedIndices ==
    last.fn \in TwoFigureFns =>
        \A f \in DOMAIN last.figs : \A c \in DOMAIN last.figs[f].curves :
            LET curve == last.figs[f].curves[c]
            IN IF c <= 3
               THEN /\ curve.inds = GoodPoints
                    /\ curve.x = Masked(didv.freq, GoodPoints)
                    /\ curve.y.of = <<"didvmean", "didvmean + didvstd",
                                      "didvmean - didvstd">>[c]
               ELSE /\ curve.inds = PositiveFreqs
                    /\ curve.x = Masked(didv.freq, PositiveFreqs)

C7_Witness ==
    /\ last.fn = "plot_re_im_didv"
    /\ ~last.raised
    /\ Len(last.figs[2].curves) > 3
    /\ GoodPoints # {}
    /\ PositiveFreqs \ GoodPoints # {}
    /\ last.figs[2].curves[1].inds # last.figs[2].curves[4].inds

(***************************************************************************)
(* C8.  plot_zoomed_in_trace sets the time-axis window to                  *)
(* [c - zoomfactor*period/2, c + zoomfactor*period/2], period = 1/sgfreq,  *)
(* c = best_time_offset + time[0] + period/2.                              *)
(***************************************************************************)
ZoomPeriod == Rat(1, didv.sgfreq)

ZoomStart == RAdd(last.best_time_offset, didv.time[1])

ZoomCentre == RAdd(ZoomStart, RMul(ZoomPeriod, Rat(1, 2)))

ZoomHalfWidth == RMul(RMul(last.zoomfactor, ZoomPeriod), Rat(1, 2))

\* the claim as stated: the limits in seconds
C8_WindowInSeconds ==
    last.fn = "plot_zoomed_in_trace" =>
        last.figs[1].xlim = << RSub(ZoomCentre, ZoomHalfWidth),
                               RAdd(ZoomCentre, ZoomHalfWidth) >>

\* C8 as amended: the limits are those of the claim in microseconds (times
\* 1e6); the lower does not exceed the upper, the width is
\* zoomfactor*period*1e6 and the window lies inside the single period
\* [(best_time_offset + time[0])*1e6, (best_time_offset + time[0] + period)*1e6]
C8_WindowInMicroseconds ==
    last.fn = "plot_zoomed_in_trace" =>
        LET lo == last.figs[1].xlim[1]
            hi == last.figs[1].xlim[2]
        IN /\ lo = Micro(RSub(ZoomCentre, ZoomHalfWidth))
           /\ hi = Micro(RAdd(ZoomCentre, ZoomHalfWidth))
           /\ RLe(lo, hi)
           /\ RSub(hi, lo) = Micro(RMul(last.zoomfactor, ZoomPeriod))
           /\ RLe(Micro(ZoomStart), lo)
           /\ RLe(hi, Micro(RAdd(ZoomStart, ZoomPeriod)))

C8_Witness ==
    /\ last.fn = "plot_zoomed_in_trace"
    /\ last.zoomfactor = Rat(1, 10)
    /\ didv.sgfreq = 5
    /\ last.best_time_offset = RInt(1)
    /\ last.figs[1].xlim = << Rat(1340000, 1), Rat(1360000, 1) >>

(***************************************************************************)
(* C9.  Among present fits of equal minimal cost the selection takes the   *)
(* one with the fewest poles: the offset is the dt of the lowest-numbered  *)
(* fit among those of minimal cost.                                        *)
(***************************************************************************)
MinCostFits ==
    { n \in Present :
        \A m \in Present : RLe(didv.poleresult[n].cost, didv.poleresult[m].cost) }

C9_TieToFewestPoles ==
    (last.fn \in OffsetFns /\ Present # {}) =>
        last.best_time_offset =
            didv.poleresult[SetMin(MinCostFits)].params.dt

C9_Witness ==
    /\ last.fn = "plot_zoomed_in_trace"
    /\ MinCostFits = {2, 3}
    /\ Present = {1, 2, 3}
    /\ last.best_time_offset = RInt(2)

(***************************************************************************)
(* C10.  A call with lgcsave that returns normally saves each figure it    *)
(* creates exactly once, then closes it exactly once, and leaves as many   *)
(* figures open as it found.                                               *)
(***************************************************************************)
C10_SavedOnceClosedOnce ==
    (Called /\ last.lgcsave /\ ~last.raised) =>
        /\ nopen = last.nopen0
        /\ \A k \in CreatedFigs :
              /\ Cardinality(EventsOn("savefig", k)) = 1
              /\ Cardinality(EventsOn("close", k)) = 1
              /\ \A c \in EventsOn("subplots", k), sv \in EventsOn("savefig", k),
                    cl \in EventsOn("close", k) : c < sv /\ sv < cl
        /\ \A k \in 1..Len(last.figs) : k \in CreatedFigs

C10_Witness ==
    /\ last.fn = "plot_re_im_didv"
    /\ last.lgcsave /\ ~last.raised
    /\ last.nopen0 = 1 /\ nopen = 1
    /\ Cardinality(EventsOn("close", 2)) = 1

====
